---- MODULE Spec2Model ----
(***************************************************************************)
(* A model of backend/quant_engine.py: SakuraEngine.__init__ and           *)
(* SakuraEngine.run_strategy.                                              *)
(*                                                                         *)
(* Bars are indexed 1..N here (bar t of the Python code is bar t+1 of the  *)
(* model).  Prices are positive integers; cash, share quantities, equity   *)
(* and metrics are exact rationals <<num, den>> (den > 0, lowest terms),   *)
(* so the float arithmetic of the code is modelled without rounding.       *)
(*                                                                         *)
(* run_strategy hands the shifted signals to vectorbt's                    *)
(* Portfolio.from_signals (line 199).  The bar loop of that call is        *)
(* modelled by SimBar with the keyword arguments the engine passes         *)
(* (lines 186-197) and the library defaults for every argument it does not *)
(* pass: long-only signals, simultaneous entry and exit ignored, stops     *)
(* checked against the close (no open/high/low is passed), the stop        *)
(* reference seeded with the close of the entry bar, a stop exit filled at *)
(* the price that hit the stop without slippage, stops taking precedence   *)
(* over the signals of the bar.                                            *)
(*                                                                         *)
(* Of the ten strategies, the four whose signals are decided by integer    *)
(* arithmetic are modelled (SMA_CROSSOVER, BOLLINGER_BANDS, MOMENTUM,      *)
(* TURTLE), next to an identifier outside the known set.                   *)
(***************************************************************************)
EXTENDS Integers, Sequences, FiniteSets, TLC

\* ------------------------------------------------------------------ bounds

\* Number of bars of a non-empty input frame.
NBars == 5

\* Number of calls of run_strategy a caller makes one after the other.
MaxCalls == 3

\* Number of bars of the rising series of the SMA_CROSSOVER scenario.
ScenarioBars == 60

\* The slopes of the rising series: the close gains 1..MaxSlope per bar.
MaxSlope == 3

\* Number of bars of a frame shorter than the windows of the strategies.
ShortBars == 3

\* Number of tickers of the sector pool scanned, one more than the workers.
NTickers == 9

\* ----------------------------------------------------------- small helpers

Max2(a, b) == IF a >= b THEN a ELSE b

Min2(a, b) == IF a <= b THEN a ELSE b

Abs(a) == IF a < 0 THEN -a ELSE a

RECURSIVE GCD(_, _)
GCD(a, b) == IF b = 0 THEN a ELSE GCD(b, a % b)

\* Exact rationals <<n, d>>, d > 0, in lowest terms.
Rat(n, d) ==
    LET s == IF d < 0 THEN -1 ELSE 1
        g == GCD(Abs(n), Abs(d))
    IN  IF n = 0 THEN <<0, 1>> ELSE <<(s * n) \div g, (s * d) \div g>>

RInt(n) == <<n, 1>>

RMul(x, y) == Rat(x[1] * y[1], x[2] * y[2])

RDiv(x, y) == Rat(x[1] * y[2], x[2] * y[1])

RAdd(x, y) == Rat(x[1] * y[2] + y[1] * x[2], x[2] * y[2])

RSub(x, y) == Rat(x[1] * y[2] - y[1] * x[2], x[2] * y[2])

RLt(x, y) == x[1] * y[2] < y[1] * x[2]

RLe(x, y) == x[1] * y[2] <= y[1] * x[2]

RZero == <<0, 1>>

ROne == <<1, 1>>

RECURSIVE SumOver(_, _, _)
\* sum of f[k] for k in lo..hi
SumOver(f, lo, hi) == IF lo > hi THEN 0 ELSE f[hi] + SumOver(f, lo, hi - 1)

RECURSIVE MaxOver(_, _, _)
\* max of f[k] for k in lo..hi (lo <= hi)
MaxOver(f, lo, hi) == IF lo = hi THEN f[lo] ELSE Max2(f[hi], MaxOver(f, lo, hi - 1))

RECURSIVE MinOver(_, _, _)
\* min of f[k] for k in lo..hi (lo <= hi)
MinOver(f, lo, hi) == IF lo = hi THEN f[lo] ELSE Min2(f[hi], MinOver(f, lo, hi - 1))

\* ------------------------------------------------------------ input frames

\* The closing prices of the bars.
Prices == 1..3

\* The columns the constructor reads (lines 15-19).
Required == {"open", "high", "low", "close", "volume"}

\* One row of the frame: the date and the bar's prices.  The volume is read
\* by no strategy modelled and carries no value here.
Row(d, o, c) == [date |-> d, open |-> o, high |-> Max2(o, c), low |-> Min2(o, c), close |-> c]

\* Rows dated 1..NBars, in ascending order of date.
AscRows(o, c) == [t \in 1..NBars |-> Row(t, o[t], c[t])]

\* The opening prices that go with the closes c: every bar opens at the
\* previous close (no gaps), or every bar opens at 2 (gaps both ways).
Opens(c) ==
    {[t \in 1..NBars |-> IF t = 1 THEN c[1] ELSE c[t - 1]], [t \in 1..NBars |-> 2]}

Reverse(s) == [k \in 1..Len(s) |-> s[Len(s) + 1 - k]]

\* The frames a caller may pass: well-formed ones, the same rows in
\* descending order of date, a frame without rows, and frames that lack one
\* required column.
Series == UNION {{AscRows(o, c) : o \in Opens(c)} : c \in [1..NBars -> Prices]}

Frames ==
    {[cols |-> Required, rows |-> r] : r \in Series}
    \cup {[cols |-> Required, rows |-> Reverse(r)] : r \in Series}
    \cup {[cols |-> Required, rows |-> <<>>]}
    \cup {[cols |-> Required \ {m}, rows |-> AscRows([t \in 1..NBars |-> 1], [t \in 1..NBars |-> 1])] :
        m \in Required}

NoFrame == [cols |-> {}, rows |-> <<>>]

Ascending(rows) == \A k \in 1..(Len(rows) - 1) : rows[k].date < rows[k + 1].date

\* MalformedBarSeries of the specification: a missing required column,
\* non-ascending timestamps, or no rows.
Malformed(frame) ==
    \/ ~(Required \subseteq frame.cols)
    \/ ~Ascending(frame.rows)
    \/ Len(frame.rows) = 0

\* data.sort_index(inplace=True), line 13: the rows in ascending order of date.
SortIndex(rows) ==
    IF Len(rows) = 0 THEN rows
    ELSE LET dates == {rows[k].date : k \in 1..Len(rows)}
             rank(d) == Cardinality({e \in dates : e <= d})
         IN  [p \in 1..Len(rows) |->
                 CHOOSE r \in {rows[k] : k \in 1..Len(rows)} : rank(r.date) = p]

\* ------------------------------------------------------ strategy parameters

\* A value of the params dict: a number, or something that is not one (a
\* string such as "abc", None), on which int(), float() and "/" raise.
Num(v) == [num |-> TRUE, v |-> v]

NotANumber == [num |-> FALSE, v |-> 0]

\* params.get(key, default)
Get(params, key, default) == IF key \in DOMAIN params THEN params[key] ELSE Num(default)

\* --------------------------------------------------------------- indicators

N(data) == Len(data)

AllFalse(data) == [t \in 1..N(data) |-> FALSE]

CloseOf(data) == [t \in 1..N(data) |-> data[t].close]

HighOf(data) == [t \in 1..N(data) |-> data[t].high]

LowOf(data) == [t \in 1..N(data) |-> data[t].low]

\* vbt.MA.run(close, w).ma at bar t is the mean of the last w closes,
\* undefined before w bars exist.  MADefined and MASum give its definedness
\* and its numerator (the denominator is w).
MADefined(w, t) == t >= w

MASum(close, w, t) == SumOver(close, t - w + 1, t)

\* How series a compares with series b at each bar: "nan" where either is
\* undefined.  Both are moving averages, given by window.
CompareMA(close, wa, wb) ==
    [t \in 1..Len(close) |->
        IF ~(MADefined(wa, t) /\ MADefined(wb, t)) THEN "nan"
        ELSE LET l == MASum(close, wa, t) * wb
                 r == MASum(close, wb, t) * wa
             IN  IF l > r THEN "gt" ELSE IF l = r THEN "eq" ELSE "lt"]

Flip(cmp) ==
    [t \in DOMAIN cmp |->
        IF cmp[t] = "gt" THEN "lt" ELSE IF cmp[t] = "lt" THEN "gt" ELSE cmp[t]]

RECURSIVE CrossState(_, _)
\* The loop of the library's crossed_above over bars 1..t, wait = 0: the
\* first series must have been below the second since the last undefined
\* bar; an equal bar re-arms the detector.
CrossState(cmp, t) ==
    IF t = 0 THEN [was_below |-> FALSE, crossed_ago |-> -1, out |-> FALSE]
    ELSE LET p == CrossState(cmp, t - 1)
         IN  IF cmp[t] = "nan" THEN [was_below |-> FALSE, crossed_ago |-> -1, out |-> FALSE]
             ELSE IF cmp[t] = "gt" THEN
                 IF p.was_below
                 THEN [was_below |-> TRUE, crossed_ago |-> p.crossed_ago + 1,
                       out |-> (p.crossed_ago + 1 = 0)]
                 ELSE [p EXCEPT !.out = FALSE]
             ELSE IF cmp[t] = "eq" THEN [p EXCEPT !.crossed_ago = -1, !.out = FALSE]
             ELSE [was_below |-> TRUE, crossed_ago |-> -1, out |-> FALSE]

CrossedAbove(cmp) == [t \in DOMAIN cmp |-> CrossState(cmp, t).out]

CrossedBelow(cmp) == CrossedAbove(Flip(cmp))

\* X < k * sqrt(D) for integers X, k and D >= 0, decided on squares.
LtSqrt(X, k, D) ==
    LET sgn == IF D = 0 \/ k = 0 THEN 0 ELSE IF k > 0 THEN 1 ELSE -1
    IN  IF X < 0 THEN (sgn >= 0 \/ X * X > k * k * D)
        ELSE (sgn > 0 /\ X * X < k * k * D)

\* vbt.BBANDS.run(close, window=w, alpha=a): middle +- a * rolling std
\* (population std).  With S and Q the sums of the window's closes and of
\* their squares, std = sqrt(w*Q - S*S) / w.
BBRadicand(close, w, t) ==
    LET S == MASum(close, w, t)
        Q == SumOver([k \in DOMAIN close |-> close[k] * close[k]], t - w + 1, t)
    IN  w * Q - S * S

\* Mutant of BelowLower: an undefined band counts as crossed.
BelowLowerUndefinedTrue(close, w, a, t) ==
    MADefined(w, t) =>
        LtSqrt(w * close[t] - MASum(close, w, t), -a, BBRadicand(close, w, t))

\* close < lower band at bar t
BelowLower(close, w, a, t) ==
    /\ MADefined(w, t)
    /\ LtSqrt(w * close[t] - MASum(close, w, t), -a, BBRadicand(close, w, t))

\* close > upper band at bar t
AboveUpper(close, w, a, t) ==
    /\ MADefined(w, t)
    /\ LtSqrt(MASum(close, w, t) - w * close[t], -a, BBRadicand(close, w, t))

\* roc = close.diff(p) / close.shift(p) * 100 is defined from bar p+1 on;
\* closes are positive, so its sign is that of close[t] - close[t-p].
RocDefined(p, t) == t - p >= 1

RocSign(close, p, t) ==
    LET d == close[t] - close[t - p]
    IN  IF d > 0 THEN 1 ELSE IF d < 0 THEN -1 ELSE 0

\* high.rolling(w).max().shift(1) and low.rolling(w).min().shift(1): the
\* channel of the w bars before bar t.
ChannelDefined(w, t) == t - 1 >= w

HighN(high, w, t) == MaxOver(high, t - w, t - 1)

LowN(low, w, t) == MinOver(low, t - w, t - 1)

\* ---------------------------------------------------------- signal dispatch

Known == {"SMA_CROSSOVER", "EMA_CROSSOVER", "RSI_REVERSAL", "BOLLINGER_BANDS", "MACD",
          "MOMENTUM", "TREND_RSI", "VOLATILITY_FILTER", "TURTLE", "KELTNER"}

\* The body of the try block (lines 50-167): the values of entries, exits and
\* indicators when the block is left, and whether it was left by an
\* exception.  Every branch modelled converts its parameters before it
\* assigns entries, so an exception leaves the three as initialised.
TryBlock(data, strategy_type, params) ==
    LET close == CloseOf(data)
        init == [raised |-> FALSE, entries |-> AllFalse(data), exits |-> AllFalse(data),
                 indicators |-> {}]
        fail == [init EXCEPT !.raised = TRUE]
    IN  IF strategy_type = "SMA_CROSSOVER" THEN
            LET s == Get(params, "shortWindow", 20)
                l == Get(params, "longWindow", 50)
                cmp == CompareMA(close, s.v, l.v)
            IN  IF ~(s.num /\ l.num) THEN fail
                ELSE [raised |-> FALSE, entries |-> CrossedAbove(cmp),
                      exits |-> CrossedBelow(cmp), indicators |-> {"smaShort", "smaLong"}]
        ELSE IF strategy_type = "BOLLINGER_BANDS" THEN
            LET w == Get(params, "bbPeriod", 20)
                a == Get(params, "bbStdDev", 2)
            IN  IF ~(w.num /\ a.num) THEN fail
                ELSE [raised |-> FALSE,
                      entries |-> [t \in 1..N(data) |-> BelowLower(close, w.v, a.v, t)],
                      exits |-> [t \in 1..N(data) |-> AboveUpper(close, w.v, a.v, t)],
                      indicators |-> {"upperBand", "lowerBand"}]
        ELSE IF strategy_type = "MOMENTUM" THEN
            LET p == Get(params, "rocPeriod", 12)
                pos(t) == RocDefined(p.v, t) /\ RocSign(close, p.v, t) > 0
                neg(t) == RocDefined(p.v, t) /\ RocSign(close, p.v, t) < 0
                nonpos(t) == t >= 1 /\ RocDefined(p.v, t) /\ RocSign(close, p.v, t) <= 0
                nonneg(t) == t >= 1 /\ RocDefined(p.v, t) /\ RocSign(close, p.v, t) >= 0
            IN  IF ~p.num THEN fail
                ELSE [raised |-> FALSE,
                      entries |-> [t \in 1..N(data) |-> pos(t) /\ nonpos(t - 1)],
                      exits |-> [t \in 1..N(data) |-> neg(t) /\ nonneg(t - 1)],
                      indicators |-> {"roc"}]
        ELSE IF strategy_type = "TURTLE" THEN
            LET ew == Get(params, "turtleEntry", 20)
                xw == Get(params, "turtleExit", 10)
            IN  IF ~(ew.num /\ xw.num) THEN fail
                ELSE [raised |-> FALSE,
                      entries |-> [t \in 1..N(data) |->
                          ChannelDefined(ew.v, t) /\ close[t] > HighN(HighOf(data), ew.v, t)],
                      exits |-> [t \in 1..N(data) |->
                          ChannelDefined(xw.v, t) /\ close[t] < LowN(LowOf(data), xw.v, t)],
                      indicators |-> {"upperBand", "lowerBand"}]
        ELSE init

\* Lines 45-171: the try block, and the handler that resets entries (and
\* only entries) after an exception.
Signals(data, strategy_type, params) ==
    LET r == TryBlock(data, strategy_type, params)
    IN  IF r.raised THEN [r EXCEPT !.entries = AllFalse(data)] ELSE r

\* Mutant of FShift: the signals are handed on without the shift.
FShiftNone(s) == s

\* entries.vbt.signals.fshift(1).fillna(False), lines 174-175: every value
\* moves one bar later and the first bar is False.
FShift(s) == [t \in DOMAIN s |-> IF t = 1 THEN FALSE ELSE s[t - 1]]

\* ----------------------------------------------------------- risk parameters

None == [on |-> FALSE, pct |-> 0]

\* Mutant of OrNone: ">= 0" for "> 0", so that a value of 0 arms a stop.
OrNoneAtZero(pct) == IF pct >= 0 THEN [on |-> TRUE, pct |-> pct] ELSE [on |-> FALSE, pct |-> 0]

\* "x if x > 0 else None" of lines 181-183, on the percentage x * 100.
OrNone(pct) == IF pct > 0 THEN [on |-> TRUE, pct |-> pct] ELSE None

\* Lines 177-179 divide the three values by 100.0: a TypeError, outside any
\* try block, when one of them is not a number.
RiskRaises(params) ==
    \/ ~Get(params, "stopLoss", 0).num
    \/ ~Get(params, "takeProfit", 0).num
    \/ ~Get(params, "trailingStop", 0).num

\* The keyword arguments of from_signals that the parameters decide (lines
\* 181-197); stops are kept as percentages.
RunParamsWith(params, size_pct) ==
    LET sl == OrNone(Get(params, "stopLoss", 0).v)
        tp == OrNone(Get(params, "takeProfit", 0).v)
        ts == OrNone(Get(params, "trailingStop", 0).v)
    IN  [size_pct |-> size_pct, accumulate |-> TRUE, tp_stop |-> tp,
         sl_stop |-> IF ts.on THEN ts ELSE sl, sl_trail |-> ts.on]

\* Mutant of RunParams: "size": 0.5, half of the free cash per order.
RunParamsHalfSize(params) == RunParamsWith(params, 50)

\* "size": 1.0, "size_type": 'percent' (line 189): all of the free cash.
RunParams(params) == RunParamsWith(params, 100)

\* -------------------------------------------------- the portfolio simulation

\* Mutant of UserSignals: on a bar with both signals the exit wins.
UserSignalsExitWins(real_entries, real_exits, i) ==
    [entry |-> real_entries[i] /\ ~real_exits[i], exit |-> real_exits[i]]

\* The signals of bar i after conflict resolution: an entry and an exit on
\* the same bar cancel each other.
UserSignals(real_entries, real_exits, i) ==
    IF real_entries[i] /\ real_exits[i] THEN [entry |-> FALSE, exit |-> FALSE]
    ELSE [entry |-> real_entries[i], exit |-> real_exits[i]]

\* The stop that closes an open long position on a bar with close c, if any:
\* the stop loss (trailing or static) is checked first, then the take profit.
StopHit(rp, pf, c) ==
    IF rp.sl_stop.on /\ c * 100 <= pf.sl_price * (100 - rp.sl_stop.pct)
    THEN (IF rp.sl_trail THEN "ts" ELSE "sl")
    ELSE IF rp.tp_stop.on /\ c * 100 >= pf.tp_price * (100 + rp.tp_stop.pct)
    THEN "tp"
    ELSE "none"

\* A buy of size_pct percent of the free cash at price p: nothing when there
\* is no cash.
BuyOrder(pf, i, p, size_pct, fees, slippage) ==
    LET cash_limit == RMul(pf.cash, Rat(size_pct, 100))
        adj == RMul(RInt(p), RAdd(ROne, slippage))
        size == RDiv(RDiv(cash_limit, RAdd(ROne, fees)), adj)
    IN  IF ~RLt(RZero, cash_limit) THEN <<>>
        ELSE <<[idx |-> i, side |-> "BUY", price |-> p, fill |-> adj, size |-> size,
                cash |-> RSub(RZero, cash_limit), cause |-> "signal"]>>

\* A sale of the quantity size at price p.
SellOrder(i, p, size, fees, slippage, cause) ==
    LET adj == RMul(RInt(p), RSub(ROne, slippage))
        proceeds == RMul(RMul(size, adj), RSub(ROne, fees))
    IN  IF ~RLt(RZero, size) THEN <<>>
        ELSE <<[idx |-> i, side |-> "SELL", price |-> p, fill |-> adj, size |-> size,
                cash |-> proceeds, cause |-> cause]>>

\* Mutant of OrderPrice: "price": self.close.
OrderPriceClose(data, i) == data[i].close

\* "price": self.open (line 187): a signal's order is priced at the bar's open.
OrderPrice(data, i) == data[i].open

\* The order, if any, that bar i produces: a stop exit closes the position
\* at the close, whatever the bar's signals; otherwise the signals decide,
\* at the open.  With accumulate an entry in a position buys again and an
\* exit sells size_pct percent of the position.
BarOrder(data, real_entries, real_exits, rp, fees, slippage, pf, i) ==
    LET hit == IF RLt(RZero, pf.position) THEN StopHit(rp, pf, data[i].close) ELSE "none"
        sig == UserSignals(real_entries, real_exits, i)
    IN  IF hit # "none" THEN SellOrder(i, data[i].close, pf.position, fees, RZero, hit)
        ELSE IF RLt(RZero, pf.position) THEN
            IF sig.exit THEN
                SellOrder(i, OrderPrice(data, i),
                          IF rp.accumulate THEN RMul(pf.position, Rat(rp.size_pct, 100))
                          ELSE pf.position,
                          fees, slippage, "signal")
            ELSE IF sig.entry /\ rp.accumulate THEN
                BuyOrder(pf, i, OrderPrice(data, i), rp.size_pct, fees, slippage)
            ELSE <<>>
        ELSE IF sig.entry THEN BuyOrder(pf, i, OrderPrice(data, i), rp.size_pct, fees, slippage)
        ELSE <<>>

\* The portfolio after bar i, given the bar's order: cash and position move
\* by the order; a filled buy (re)seeds the stop references with the bar's
\* close; a trailing stop follows the highest close since.
AfterBar(data, rp, pf, i, ord) ==
    LET c == data[i].close
        cash == IF ord = <<>> THEN pf.cash ELSE RAdd(pf.cash, ord[1].cash)
        position ==
            IF ord = <<>> THEN pf.position
            ELSE IF ord[1].side = "BUY" THEN RAdd(pf.position, ord[1].size)
            ELSE RSub(pf.position, ord[1].size)
        bought == ord # <<>> /\ ord[1].side = "BUY"
    IN  [i |-> i + 1, cash |-> cash, position |-> position,
         sl_price |-> IF bought THEN c
                      ELSE IF ~RLt(RZero, position) THEN 0
                      ELSE IF rp.sl_trail /\ c > pf.sl_price THEN c
                      ELSE pf.sl_price,
         tp_price |-> IF bought THEN c
                      ELSE IF ~RLt(RZero, position) THEN 0
                      ELSE pf.tp_price]

\* cash + position * close: the equity at the end of a bar.
Equity(pf, c) == RAdd(pf.cash, RMul(pf.position, RInt(c)))

\* ------------------------------------------------------- metrics and ledger

\* The largest and the smallest of a non-empty set of fractions.
RMax(S) == CHOOSE x \in S : \A y \in S : RLe(y, x)

RMin(S) == CHOOSE x \in S : \A y \in S : RLe(x, y)

\* The drawdown at bar t: equity / peak - 1, the peak being the highest
\* equity up to bar t (the equity starts at the initial cash).
Drawdown(value, init, t) ==
    LET peak == RMax({init} \cup {value[k] : k \in 1..t})
    IN  RSub(RDiv(value[t], peak), ROne)

\* pf.max_drawdown(): the lowest value of equity / peak - 1 over the run.
MaxDrawdown(value, init) ==
    RMin({RZero} \cup {Drawdown(value, init, t) : t \in 1..Len(value)})

\* pf.returns(): the equity of each bar over the equity of the bar before
\* (the initial cash for the first bar), minus one.
Returns(value, init) ==
    [t \in 1..Len(value) |->
        RSub(RDiv(value[t], IF t = 1 THEN init ELSE value[t - 1]), ROne)]

\* pf.sharpe_ratio(): NaN with fewer than two returns, infinite when the
\* returns have no spread (standard deviation 0), else mean / std, annualised.
\* Only the kind of the outcome is kept.
SharpeRatio(value, init) ==
    LET returns == Returns(value, init)
    IN  IF Len(returns) < 2 THEN "nan"
        ELSE IF \A t \in 1..Len(returns) : returns[t] = returns[1] THEN "inf"
        ELSE "finite"

RECURSIVE ExitTrades(_, _, _, _, _)
\* pf.trades: the profit of one trade per SELL order, and of one more, still
\* open, for a position held at the end, valued at held.  size and cost are
\* the quantity held before order k and what was paid for it.
ExitTrades(orders, k, size, cost, held) ==
    IF k > Len(orders)
    THEN (IF RLt(RZero, size) THEN <<RSub(held, cost)>> ELSE <<>>)
    ELSE IF orders[k].side = "BUY"
    THEN ExitTrades(orders, k + 1, RAdd(size, orders[k].size),
                    RSub(cost, orders[k].cash), held)
    ELSE LET part == RMul(cost, RDiv(orders[k].size, size))
         IN  <<RSub(orders[k].cash, part)>>
             \o ExitTrades(orders, k + 1, RSub(size, orders[k].size),
                           RSub(cost, part), held)

\* The cash the orders have moved, from order k on.
CashFlow(orders, k) ==
    LET F[j \in k..(Len(orders) + 1)] ==
            IF j > Len(orders) THEN RZero ELSE RAdd(orders[j].cash, F[j + 1])
    IN  F[k]

\* pf.trades.win_rate(): the trades with a positive profit over all trades,
\* the open one included; NaN without a trade.
WinRate(value, orders, init) ==
    LET held == RSub(value[Len(value)], RAdd(init, CashFlow(orders, 1)))
        pnl == ExitTrades(orders, 1, RZero, RZero, held)
        winning == {k \in 1..Len(pnl) : RLt(RZero, pnl[k])}
    IN  IF pnl = <<>> THEN [nan |-> TRUE, rate |-> RZero]
        ELSE [nan |-> FALSE, rate |-> Rat(Cardinality(winning), Len(pnl))]

\* The metrics dict of lines 212-232.  A NaN win rate or Sharpe ratio
\* becomes 0; the Sharpe ratio is reported by its kind: "zero", "inf" or
\* "finite".
Metrics(value, orders, init) ==
    LET sharpe == SharpeRatio(value, init)
        win_rate == WinRate(value, orders, init)
    IN  [totalReturn |-> RMul(RSub(RDiv(value[Len(value)], init), ROne), RInt(100)),
         finalCapital |-> value[Len(value)],
         initialCapital |-> value[1],
         maxDrawdown |-> RMul(MaxDrawdown(value, init), RInt(100)),
         winRate |-> IF win_rate.nan THEN RZero ELSE RMul(win_rate.rate, RInt(100)),
         tradeCount |-> Len(orders),
         sharpeRatio |-> IF sharpe = "nan" THEN "zero" ELSE sharpe]

RECURSIVE InsertByDate(_, _)
\* x put into the date-sorted list l after the entries dated no later.
InsertByDate(l, x) ==
    IF l = <<>> THEN <<x>>
    ELSE IF l[Len(l)].date <= x.date THEN Append(l, x)
    ELSE Append(InsertByDate(SubSeq(l, 1, Len(l) - 1), x), l[Len(l)])

RECURSIVE SortByDate(_)
\* trades_list.sort(key=date), line 256: a stable sort.
SortByDate(l) ==
    IF l = <<>> THEN <<>>
    ELSE InsertByDate(SortByDate(SubSeq(l, 1, Len(l) - 1)), l[Len(l)])

\* pf.loc[metrics_start:metrics_end], line 206: a vectorbt Portfolio built
\* on one close series is indexed by column only, so that the row slice
\* raises (IndexingError) whatever the two dates.
PfLoc(value, orders, w) == [raised |-> TRUE, value |-> <<>>, orders |-> <<>>]

\* pf_used, lines 202-209: the portfolio sliced to the metrics window, or the
\* whole portfolio when there is no window or the slice raised.
PfUsed(value, orders, w) ==
    LET sliced == PfLoc(value, orders, w)
    IN  IF w.on /\ ~sliced.raised THEN [value |-> sliced.value, orders |-> sliced.orders]
        ELSE [value |-> value, orders |-> orders]

\* Lines 241-247: with a metrics window, the order records dated before
\* metrics_start or after metrics_end are skipped.
InWindow(data, orders, w) ==
    SelectSeq(orders, LAMBDA o :
        ~(w.on /\ (data[o.idx].date < w.start \/ data[o.idx].date > w.end)))

\* Lines 234-256: one ledger row per order record, sorted by date.
TradesList(data, orders) ==
    SortByDate([k \in 1..Len(orders) |->
        [date |-> data[orders[k].idx].date, type |-> orders[k].side,
         price |-> orders[k].fill]])

\* ------------------------------------------------------------------- calls

\* capital: float = 10000.0 (line 42)
Capital == 10000

\* fees and slippage are fractions; the calls modelled use 0 and 1/2.
Rates == {<<RZero, RZero>>, <<Rat(1, 2), Rat(1, 2)>>}

Empty == [k \in {} |-> Num(0)]

StrategyParams ==
    {<<"SMA_CROSSOVER", [shortWindow |-> Num(1), longWindow |-> Num(2)]>>,
     <<"SMA_CROSSOVER", [shortWindow |-> NotANumber]>>,
     <<"BOLLINGER_BANDS", [bbPeriod |-> Num(3), bbStdDev |-> Num(1)]>>,
     <<"BOLLINGER_BANDS", [bbPeriod |-> Num(3), bbStdDev |-> Num(-1)]>>,
     <<"MOMENTUM", [rocPeriod |-> Num(1)]>>,
     <<"TURTLE", [turtleEntry |-> Num(1), turtleExit |-> Num(1)]>>,
     <<"TURTLE", Empty>>,
     <<"BUY_AND_HOLD", Empty>>}

RiskParams ==
    {Empty,
     [stopLoss |-> Num(50)],
     [takeProfit |-> Num(50)],
     [trailingStop |-> Num(50)],
     [stopLoss |-> Num(75), trailingStop |-> Num(50)],
     [stopLoss |-> Num(50), takeProfit |-> Num(50)],
     [stopLoss |-> Num(-50), takeProfit |-> Num(0), trailingStop |-> Num(-50)],
     [stopLoss |-> NotANumber]}

\* The union of two dicts with disjoint keys.
Merge(f, g) == [k \in (DOMAIN f) \cup (DOMAIN g) |-> IF k \in DOMAIN f THEN f[k] ELSE g[k]]

Calls ==
    {[strategy_type |-> sp[1], params |-> Merge(sp[2], r), capital |-> RInt(Capital),
      fees |-> fs[1], slippage |-> fs[2]] :
        sp \in StrategyParams, r \in RiskParams, fs \in Rates}

\* metrics_start and metrics_end (line 43): both None, or two dates.
NoWindow == [on |-> FALSE, start |-> 0, end |-> 0]

\* The metrics windows of the calls: none, or the bar before the last one,
\* which has bars before it, inside it and after it that can hold an order.
Windows == {NoWindow, [on |-> TRUE, start |-> NBars - 1, end |-> NBars - 1]}

NoCall == [strategy_type |-> "", params |-> Empty, capital |-> RZero,
           fees |-> RZero, slippage |-> RZero]

NoRunParams == [size_pct |-> 0, accumulate |-> FALSE, tp_stop |-> None,
                sl_stop |-> None, sl_trail |-> FALSE]

NoPortfolio == [i |-> 0, cash |-> RZero, position |-> RZero, sl_price |-> 0, tp_price |-> 0]

NoResult == [metrics |-> <<>>, trades |-> <<>>, indicators |-> {}, entries |-> <<>>,
             exits |-> <<>>]

\* ------------------------------------------------------------------- state

VARIABLES
    input,          \* the frame passed to SakuraEngine(...), until it is read
    pc,             \* "new", "failed", "ready", "signals", "sim", "done", "raised"
    data,           \* self.data: the rows of the engine
    call,           \* the arguments of the run_strategy call in progress
    entries,        \* raw entry signal (after the except handler)
    exits,          \* raw exit signal
    indicators,     \* the keys of the indicator map
    real_entries,   \* shifted entry signal
    real_exits,     \* shifted exit signal
    run_params,     \* the keyword arguments of from_signals
    pf,             \* the simulated portfolio: next bar, cash, position, stop references
    orders,         \* pf.orders: the order records so far
    value,          \* pf.value(): the equity at the end of each bar so far
    result,         \* what run_strategy returned
    history,        \* what the caller has seen: the calls that returned, in order
    window,         \* metrics_start and metrics_end of the call, read from line 204 on
    market,         \* run_screener: what the data provider answers for each ticker
    futures,        \* run_screener: the state of the scan submitted for each ticker
    results,        \* run_screener: the list of results
    screener        \* run_screener: "idle", "collecting", "returned"

vars == <<input, pc, data, call, entries, exits, indicators, real_entries, real_exits,
          run_params, pf, orders, value, result, history, window,
          market, futures, results, screener>>

engine_vars == <<input, pc, data, call, entries, exits, indicators, real_entries,
                 real_exits, run_params, pf, orders, value, result, history, window>>

screener_vars == <<market, futures, results, screener>>

\* Mutant of NewOrderRecords: the order records live on the engine and are
\* carried from one call to the next.
KeptOrderRecords == orders

\* pf = vbt.Portfolio.from_signals(...), line 199: the portfolio is a local
\* of the call, built anew, with no order record of an earlier call.
NewOrderRecords == <<>>

\* Before SakuraEngine(data), for a frame out of frames.
EngineNew(frames) ==
    /\ input \in frames
    /\ pc = "new"
    /\ data = <<>>
    /\ call = NoCall
    /\ entries = <<>>
    /\ exits = <<>>
    /\ indicators = {}
    /\ real_entries = <<>>
    /\ real_exits = <<>>
    /\ run_params = NoRunParams
    /\ pf = NoPortfolio
    /\ orders = <<>>
    /\ value = <<>>
    /\ result = NoResult
    /\ history = <<>>
    /\ window = NoWindow

\* Before run_screener, with the data provider in state m.
ScreenerIdle(m) ==
    /\ market = m
    /\ futures = <<>>
    /\ results = <<>>
    /\ screener = "idle"

InitOf(frames) == EngineNew(frames) /\ ScreenerIdle(0)

Init == InitOf(Frames)

\* SakuraEngine.__init__ (lines 7-19): copy, sort by date, then read the five
\* columns, which raises KeyError when one is missing.  Nothing else is
\* checked.
Construct ==
    /\ pc = "new"
    /\ UNCHANGED screener_vars
    /\ input' = NoFrame
    /\ IF Required \subseteq input.cols
       THEN /\ data' = SortIndex(input.rows)
            /\ pc' = "ready"
       ELSE /\ data' = <<>>
            /\ pc' = "failed"
    /\ UNCHANGED <<call, entries, exits, indicators, real_entries, real_exits, run_params,
                   pf, orders, value, result, history, window>>

\* run_strategy, lines 42-171, called with arguments out of calls: the
\* signals of the strategy, from all-false series and an empty indicator map.
ComputeSignalsOf(calls) ==
    /\ pc = "ready"
    /\ UNCHANGED screener_vars
    /\ Len(data) > 0
    /\ \E c \in calls :
        LET r == Signals(data, c.strategy_type, c.params)
        IN  /\ call' = c
            /\ entries' = r.entries
            /\ exits' = r.exits
            /\ indicators' = r.indicators
    /\ pc' = "signals"
    /\ UNCHANGED <<input, data, real_entries, real_exits, run_params, pf, orders, value,
                   result, history, window>>

ComputeSignals == ComputeSignalsOf(Calls)

\* Lines 173-199, up to the first bar of from_signals: the shift, the risk
\* parameters (an exception here leaves run_strategy), the start of the
\* simulation with init_cash.
PrepareRun ==
    /\ pc = "signals"
    /\ UNCHANGED screener_vars
    /\ IF RiskRaises(call.params)
       THEN /\ pc' = "raised"
            /\ UNCHANGED <<real_entries, real_exits, run_params, pf, orders, value>>
       ELSE /\ real_entries' = FShift(entries)
            /\ real_exits' = FShift(exits)
            /\ run_params' = RunParams(call.params)
            /\ pf' = [i |-> 1, cash |-> call.capital, position |-> RZero,
                      sl_price |-> 0, tp_price |-> 0]
            /\ orders' = NewOrderRecords
            /\ value' = <<>>
            /\ pc' = "sim"
    /\ UNCHANGED <<input, data, call, entries, exits, indicators, result, history, window>>

\* One bar of from_signals (line 199).
SimBar ==
    /\ pc = "sim"
    /\ UNCHANGED screener_vars
    /\ pf.i <= Len(data)
    /\ LET ord == BarOrder(data, real_entries, real_exits, run_params, call.fees,
                           call.slippage, pf, pf.i)
           next == AfterBar(data, run_params, pf, pf.i, ord)
       IN  /\ pf' = next
           /\ orders' = orders \o ord
           /\ value' = Append(value, Equity(next, data[pf.i].close))
    /\ UNCHANGED <<input, pc, data, call, entries, exits, indicators, real_entries,
                   real_exits, run_params, result, history, window>>

\* Lines 201-267: the metrics, the ledger, the return value.
BuildResultOf(windows) ==
    /\ pc = "sim"
    /\ UNCHANGED screener_vars
    /\ pf.i > Len(data)
    /\ \E w \in windows :
        LET pf_used == PfUsed(value, orders, w)
        IN  /\ window' = w
            /\ result' = [metrics |-> Metrics(pf_used.value, pf_used.orders, call.capital),
                          trades |-> TradesList(data, InWindow(data, orders, w)),
                          indicators |-> indicators, entries |-> entries,
                          exits |-> exits]
    /\ pc' = "done"
    /\ UNCHANGED <<input, data, call, entries, exits, indicators, real_entries,
                   real_exits, run_params, pf, orders, value, history>>

BuildResult == BuildResultOf(Windows)

\* run_strategy on an engine without rows: what the library calls do on
\* empty series is not decided by this repository; the call either raises or
\* returns.
RunOnEmpty ==
    /\ pc = "ready"
    /\ UNCHANGED screener_vars
    /\ Len(data) = 0
    /\ \E c \in Calls : call' = c
    /\ pc' \in {"raised", "done"}
    /\ UNCHANGED <<input, data, entries, exits, indicators, real_entries, real_exits,
                   run_params, pf, orders, value, result, history, window>>

Next ==
    \/ Construct
    \/ ComputeSignals
    \/ PrepareRun
    \/ SimBar
    \/ BuildResult
    \/ RunOnEmpty

Spec == Init /\ [][Next]_vars

\* ------------------------------------------- several calls, several engines

\* Two bar series with rising and falling closes, without gaps.
RepeatSeries ==
    {r \in Series :
        /\ \A t \in 2..NBars : r[t].open = r[t - 1].close
        /\ \/ \A t \in 1..NBars : r[t].close = 1 + (t % 3)
           \/ \A t \in 1..NBars : r[t].close = 3 - (t % 3)}

\* The frames of the repeated calls: the two series, and one of them with
\* its rows in any order the constructor sorts back.
RepeatFrames ==
    {[cols |-> Required, rows |-> r] : r \in RepeatSeries}
    \cup {[cols |-> Required, rows |-> Reverse(r)] :
            r \in {q \in RepeatSeries : q[1].close = 2 /\ q[2].close = 3}}

\* The arguments of the repeated calls.
RepeatCalls ==
    {c \in Calls :
        /\ c.fees = RZero
        /\ c.strategy_type \in {"TURTLE", "MOMENTUM"}
        /\ DOMAIN c.params \in {{"turtleEntry", "turtleExit"}, {"rocPeriod"},
                                {"turtleEntry", "turtleExit", "stopLoss"}}
        /\ \A key \in DOMAIN c.params : c.params[key].num /\ c.params[key].v > 0}

InitRepeat == InitOf(RepeatFrames)

ComputeSignalsRepeat == ComputeSignalsOf(RepeatCalls)

\* return {...}, lines 261-267: the caller has the result and the engine is
\* ready for another call.  Nothing of the finished call is cleared here:
\* whatever the next call does not set anew it would find.
Return ==
    /\ pc = "done"
    /\ UNCHANGED screener_vars
    /\ Len(data) > 0
    /\ Len(history) < MaxCalls
    /\ history' = Append(history, [data |-> data, call |-> call, window |-> window,
                                    result |-> result])
    /\ pc' = "ready"
    /\ UNCHANGED <<input, data, call, entries, exits, indicators, real_entries,
                   real_exits, run_params, pf, orders, value, result, window>>

\* SakuraEngine(df) once more: the next call goes to another instance.
NewEngine ==
    /\ pc = "ready"
    /\ UNCHANGED screener_vars
    /\ history # <<>>
    /\ Len(history) < MaxCalls
    /\ input' \in RepeatFrames
    /\ data' = <<>>
    /\ pc' = "new"
    /\ UNCHANGED <<call, entries, exits, indicators, real_entries, real_exits, run_params,
                   pf, orders, value, result, history, window>>

NextRepeat ==
    \/ Construct
    \/ ComputeSignalsRepeat
    \/ PrepareRun
    \/ SimBar
    \/ BuildResult
    \/ Return
    \/ NewEngine

SpecRepeat == InitRepeat /\ [][NextRepeat]_vars

\* ================================================================== claims

\* States in which the simulation of a call has started.
Simulating == pc \in {"sim", "done"} /\ Len(data) > 0

\* The run has returned its result for a non-empty engine.
Returned == pc = "done" /\ Len(data) > 0

IsBuy(k) == orders[k].side = "BUY"

IsSell(k) == orders[k].side = "SELL"

StopLossPct == Get(call.params, "stopLoss", 0).v

TakeProfitPct == Get(call.params, "takeProfit", 0).v

TrailingStopPct == Get(call.params, "trailingStop", 0).v

\* ------------------------------------------------------------------- C1
\* C1: every BUY order sits on a bar i >= 2 (never the first bar) whose
\* previous bar i-1 carries a true raw entry signal, and on a bar of the
\* series: a raw signal at bar t is acted on at bar t+1 at the earliest, and
\* one on the last bar is acted on nowhere.
C1_BuyOneBarAfterRawEntry ==
    \A k \in 1..Len(orders) :
        IsBuy(k) =>
            /\ orders[k].idx >= 2
            /\ orders[k].idx <= Len(data)
            /\ entries[orders[k].idx - 1]

\* C1 witness: a finished run with a BUY on a bar whose own raw entry signal
\* is false, and a raw entry signal on the last bar.
C1_Witness ==
    /\ Returned
    /\ entries[Len(data)]
    /\ \E k \in 1..Len(orders) : IsBuy(k) /\ ~entries[orders[k].idx]

\* ------------------------------------------------------------------- C2
\* C2 as claimed: every BUY is on a bar whose shifted entry signal is true
\* and every SELL on a bar whose shifted exit signal is true, whatever the
\* stop parameters.
C2_EveryOrderOnShiftedSignal ==
    \A k \in 1..Len(orders) :
        /\ IsBuy(k) => real_entries[orders[k].idx]
        /\ IsSell(k) => real_exits[orders[k].idx]

\* C2 amended: every BUY is on a bar whose shifted entry signal is true;
\* every SELL is either a signal exit on a bar whose shifted exit signal is
\* true, or the exit of a stop-loss, take-profit or trailing-stop whose
\* parameter is > 0.  With the three parameters <= 0 or absent every SELL is
\* on a shifted-exit bar.
C2_OrderOnShiftedSignalOrStop ==
    \A k \in 1..Len(orders) :
        /\ IsBuy(k) => real_entries[orders[k].idx]
        /\ IsSell(k) =>
            \/ orders[k].cause = "signal" /\ real_exits[orders[k].idx]
            \/ orders[k].cause = "sl" /\ StopLossPct > 0 /\ TrailingStopPct <= 0
            \/ orders[k].cause = "ts" /\ TrailingStopPct > 0
            \/ orders[k].cause = "tp" /\ TakeProfitPct > 0

\* C2 witness: a finished run with a BUY on a shifted-entry bar and a stop
\* SELL on a bar whose shifted exit signal is false.
C2_Witness ==
    /\ Returned
    /\ Len(orders) >= 2
    /\ IsBuy(1)
    /\ real_entries[orders[1].idx]
    /\ IsSell(2)
    /\ orders[2].cause # "signal"
    /\ ~real_exits[orders[2].idx]

\* ------------------------------------------------------------------- C3
\* C3: no parameter set asks for accumulation, and the order log alternates:
\* it starts with a BUY and a BUY is followed by a SELL, so a shifted-entry
\* bar inside an open position emits no BUY.
C3_NoBuyWhileInPosition ==
    \A k \in 1..Len(orders) :
        IF k = 1 THEN IsBuy(k) ELSE orders[k].side # orders[k - 1].side

\* C3 witness: a finished run without stops whose only order is a BUY,
\* followed by a later bar with a true shifted entry signal and a false
\* shifted exit signal: the entry found the position open and emitted
\* nothing.
C3_Witness ==
    /\ Returned
    /\ Len(orders) = 1
    /\ IsBuy(1)
    /\ ~run_params.sl_stop.on
    /\ ~run_params.tp_stop.on
    /\ \E i \in (orders[1].idx + 1)..Len(data) : real_entries[i] /\ ~real_exits[i]

\* ------------------------------------------------------------------- C4
\* C4: a SELL follows a BUY (a position is open) and sells exactly the
\* quantity that BUY bought; the held quantity is never negative and is zero
\* right after a SELL; an order caused by a signal is priced at the open of
\* its bar, and filled at that price moved by the slippage.
C4_SellClosesAtOpen ==
    /\ ~RLt(pf.position, RZero)
    /\ (Len(orders) > 0 /\ IsSell(Len(orders))) => pf.position = RZero
    /\ \A k \in 1..Len(orders) :
        /\ IsSell(k) => (k > 1 /\ IsBuy(k - 1) /\ orders[k].size = orders[k - 1].size)
        /\ orders[k].cause = "signal" =>
            /\ orders[k].price = data[orders[k].idx].open
            /\ orders[k].fill =
                RMul(RInt(data[orders[k].idx].open),
                     IF IsBuy(k) THEN RAdd(ROne, call.slippage)
                     ELSE RSub(ROne, call.slippage))

\* C4 witness: a finished run with a signal BUY and a signal SELL, each on a
\* bar whose open differs from its close, under a slippage > 0.
C4_Witness ==
    /\ Returned
    /\ call.slippage # RZero
    /\ Len(orders) >= 2
    /\ IsSell(2)
    /\ orders[2].cause = "signal"
    /\ \A k \in 1..2 : data[orders[k].idx].open # data[orders[k].idx].close

\* ------------------------------------------------------------------- C5

\* The stop-loss overlay the parameters ask for (the trailing stop when
\* trailingStop > 0, else the static one when stopLoss > 0) is met on bar j
\* for a position entered on bar b < j.
StopLossMet(b, j) ==
    LET close == CloseOf(data)
    IN  IF TrailingStopPct > 0
        THEN close[j] * 100 <= MaxOver(close, b, j - 1) * (100 - TrailingStopPct)
        ELSE StopLossPct > 0 /\ close[j] * 100 <= close[b] * (100 - StopLossPct)

\* The take-profit overlay is met on bar j for a position entered on bar b.
TakeProfitMet(b, j) ==
    LET close == CloseOf(data)
    IN  TakeProfitPct > 0 /\ close[j] * 100 >= close[b] * (100 + TakeProfitPct)

\* The exit signal is met on bar j: the shifted exit signal is true, and,
\* when alone is asked for, the shifted entry signal is false.
ExitMet(j, alone) == real_exits[j] /\ (alone => ~real_entries[j])

\* One of the closing conditions is met on bar j for the position of bar b.
CloserMet(b, j, alone) == StopLossMet(b, j) \/ TakeProfitMet(b, j) \/ ExitMet(j, alone)

\* Every SELL closes the position of the BUY just before it, on the first
\* bar after the entry on which a closing condition is met, by a condition
\* that is met there, and by the stop-loss when that is met; a position
\* still open has met no closing condition on the bars simulated so far.
ClosedByFirstMet(alone) ==
    /\ \A k \in 1..Len(orders) :
        IsSell(k) =>
            /\ k > 1
            /\ IsBuy(k - 1)
            /\ LET b == orders[k - 1].idx
                   s == orders[k].idx
               IN  /\ b < s
                   /\ \A j \in (b + 1)..(s - 1) : ~CloserMet(b, j, alone)
                   /\ CloserMet(b, s, alone)
                   /\ StopLossMet(b, s) => orders[k].cause \in {"sl", "ts"}
                   /\ orders[k].cause \in {"sl", "ts"} => StopLossMet(b, s)
                   /\ orders[k].cause = "tp" => TakeProfitMet(b, s)
                   /\ orders[k].cause = "signal" => ExitMet(s, alone)
    /\ (Len(orders) > 0 /\ IsBuy(Len(orders))) =>
        \A j \in (orders[Len(orders)].idx + 1)..(pf.i - 1) :
            ~CloserMet(orders[Len(orders)].idx, j, alone)

C6_StaticStopFromEntryPrice ==
    Simulating =>
        /\ \A k \in 1..Len(orders) :
            /\ orders[k].cause = "ts" =>
                /\ TrailingStopPct > 0
                /\ StopLossMet(orders[k - 1].idx, orders[k].idx)
            /\ orders[k].cause = "sl" =>
                /\ TrailingStopPct <= 0
                /\ StopLossPct > 0
                /\ RLe(RInt(data[orders[k].idx].close * 100),
                       RMul(orders[k - 1].fill, RInt(100 - StopLossPct)))
            /\ orders[k].cause = "tp" => TakeProfitPct > 0
        /\ (/\ TrailingStopPct <= 0
            /\ StopLossPct > 0
            /\ Len(orders) > 0
            /\ IsBuy(Len(orders))) =>
                \A j \in (orders[Len(orders)].idx + 1)..(pf.i - 1) :
                    ~RLe(RInt(data[j].close * 100),
                         RMul(orders[Len(orders)].fill, RInt(100 - StopLossPct)))

\* ------------------------------------------------------------------- C7

\* C7 as claimed: a call with a strategy identifier outside the known names
\* on an engine with rows never raises, and returns all-false entries and
\* exits, no indicators, no trades, tradeCount 0 and the initial capital.
C7_UnknownStrategyReturnsFlat ==
    (Len(data) > 0 /\ call # NoCall /\ call.strategy_type \notin Known) =>
        /\ pc # "raised"
        /\ pc = "done" =>
            /\ result.entries = AllFalse(data)
            /\ result.exits = AllFalse(data)
            /\ result.indicators = {}
            /\ result.trades = <<>>
            /\ result.metrics.tradeCount = 0
            /\ result.metrics.finalCapital = call.capital

\* ------------------------------------------------------------------- C8

\* C8 as claimed: a call whose parameters hold a value that is not a number
\* on an engine with rows never raises, emits no order, and returns
\* all-false entries and exits.
C8_MalformedConfigReturnsFlat ==
    (/\ Len(data) > 0
     /\ call # NoCall
     /\ \E key \in DOMAIN call.params : ~call.params[key].num) =>
        /\ pc # "raised"
        /\ orders = <<>>
        /\ pc = "done" =>
            /\ result.entries = AllFalse(data)
            /\ result.exits = AllFalse(data)
            /\ result.trades = <<>>

\* ------------------------------------------------------------------- C9

\* C9 as claimed: constructing the engine on a frame that lacks a required
\* column, has non-ascending timestamps or has no rows fails, so that no
\* signal or simulation step follows.
C9_MalformedBarSeriesFails ==
    [][(pc = "new" /\ Malformed(input)) => pc' = "failed"]_vars

\* ------------------------------------------------------------------ C10

\* C10 as claimed: the maxDrawdown of every returned result is >= 0.
C10_MaxDrawdownNonNegative ==
    Returned => ~RLt(result.metrics.maxDrawdown, RZero)

\* ------------------------------------------ SMA_CROSSOVER on rising closes

\* Closes that rise by a per bar up to bar k and by b per bar after it.
RisingCloses(k, a, b) ==
    [t \in 1..ScenarioBars |-> 1 + a * Min2(t, k) + b * Max2(t - k, 0)]

\* ScenarioBars rows in ascending order of date, each bar opening at the
\* previous close, with strictly rising closes.
RisingSeries ==
    {[t \in 1..ScenarioBars |-> Row(t, IF t = 1 THEN c[1] ELSE c[t - 1], c[t])] :
        c \in {RisingCloses(k, a, b) : k \in 0..ScenarioBars, a \in 1..MaxSlope,
                                        b \in 1..MaxSlope}}

RisingFrames == {[cols |-> Required, rows |-> r] : r \in RisingSeries}

\* run_strategy("SMA_CROSSOVER", {"shortWindow": 5, "longWindow": 20}, ...).
ScenarioCalls ==
    {[strategy_type |-> "SMA_CROSSOVER",
      params |-> [shortWindow |-> Num(5), longWindow |-> Num(20)],
      capital |-> RInt(Capital), fees |-> fs[1], slippage |-> fs[2]] : fs \in Rates}

InitScenario == InitOf(RisingFrames)

ComputeSignalsScenario == ComputeSignalsOf(ScenarioCalls)

NextScenario ==
    \/ Construct
    \/ ComputeSignalsScenario
    \/ PrepareRun
    \/ SimBar
    \/ BuildResult

SpecScenario == InitScenario /\ [][NextScenario]_vars

\* ------------------------------------------------- windows and short frames

\* The first ShortBars rows of the series.
ShortSeries == {SubSeq(r, 1, ShortBars) : r \in Series}

WarmupFrames == {[cols |-> Required, rows |-> r] : r \in Series \cup ShortSeries}

\* Calls of the four strategies with their default windows and with windows
\* of two and three bars, without stops, fees or slippage.
WarmupCalls ==
    {[strategy_type |-> sp[1], params |-> sp[2], capital |-> RInt(Capital),
      fees |-> RZero, slippage |-> RZero] :
        sp \in {<<"SMA_CROSSOVER", Empty>>,
                <<"SMA_CROSSOVER", [shortWindow |-> Num(2), longWindow |-> Num(3)]>>,
                <<"BOLLINGER_BANDS", Empty>>,
                <<"BOLLINGER_BANDS", [bbPeriod |-> Num(3), bbStdDev |-> Num(1)]>>,
                <<"MOMENTUM", Empty>>,
                <<"MOMENTUM", [rocPeriod |-> Num(2)]>>,
                <<"TURTLE", Empty>>,
                <<"TURTLE", [turtleEntry |-> Num(3), turtleExit |-> Num(1)]>>,
                <<"TURTLE", [turtleEntry |-> Num(1), turtleExit |-> Num(3)]>>}}

InitWarmup == InitOf(WarmupFrames)

ComputeSignalsWarmup == ComputeSignalsOf(WarmupCalls)

NextWarmup ==
    \/ Construct
    \/ ComputeSignalsWarmup
    \/ PrepareRun
    \/ SimBar
    \/ BuildResult

SpecWarmup == InitWarmup /\ [][NextWarmup]_vars

\* ------------------------------------------------------------------ C11

\* C11: any two calls that returned with the same bar series and the same
\* arguments (metrics window included), on one engine or on two, next to each other or with other
\* calls in between, returned the same result: the same metrics, ledger,
\* indicators and signals.
C11_SameCallSameResult ==
    \A i \in 1..Len(history) : \A j \in 1..Len(history) :
        (/\ history[i].data = history[j].data
         /\ history[i].call = history[j].call
         /\ history[i].window = history[j].window) =>
            history[i].result = history[j].result

\* C11 witness: three calls returned; the first and the third have the same
\* bar series and arguments, the second has other arguments, and the first
\* two both traded.
C11_Witness ==
    /\ Len(history) = 3
    /\ history[1].data = history[3].data
    /\ history[1].call = history[3].call
    /\ history[1].window = history[3].window
    /\ history[2].call # history[1].call
    /\ history[1].result.trades # <<>>
    /\ history[2].result.trades # <<>>

\* ------------------------------------------------------------------ C12

\* The order records dated inside the metrics window.
OrdersInWindow ==
    SelectSeq(orders, LAMBDA o :
        data[o.idx].date >= window.start /\ data[o.idx].date <= window.end)

\* C12 as claimed: a run with a metrics window returns a ledger with exactly
\* the orders dated inside the window, a tradeCount that counts exactly
\* those orders, and an initialCapital equal to the equity at the first bar
\* of the window.
C12_WindowRescopesReport ==
    (Returned /\ window.on) =>
        /\ result.trades = TradesList(data, OrdersInWindow)
        /\ result.metrics.tradeCount = Len(OrdersInWindow)
        /\ result.metrics.initialCapital = value[window.start]

\* ------------------------------------------------------------------ C13

\* C13 as claimed: SMA_CROSSOVER with shortWindow 5 and longWindow 20 on 60
\* bars with strictly rising closes returns with exactly one order, a BUY.
C13_OneBuyOnRisingCloses ==
    (/\ pc = "done"
     /\ Len(data) = ScenarioBars
     /\ \A t \in 2..Len(data) : data[t - 1].close < data[t].close
     /\ call.strategy_type = "SMA_CROSSOVER"
     /\ call.params = [shortWindow |-> Num(5), longWindow |-> Num(20)]) =>
        /\ Len(orders) = 1
        /\ IsBuy(1)
        /\ Len(result.trades) = 1

\* ------------------------------------------------------------------ C14

\* The longest window the entry rule of the call reads, and the longest the
\* exit rule reads (lines 52-53, 79, 94, 135-136).
EntryWindow ==
    LET p == call.params
    IN  IF call.strategy_type = "SMA_CROSSOVER"
        THEN Max2(Get(p, "shortWindow", 20).v, Get(p, "longWindow", 50).v)
        ELSE IF call.strategy_type = "BOLLINGER_BANDS" THEN Get(p, "bbPeriod", 20).v
        ELSE IF call.strategy_type = "MOMENTUM" THEN Get(p, "rocPeriod", 12).v
        ELSE Get(p, "turtleEntry", 20).v

ExitWindow ==
    IF call.strategy_type = "TURTLE" THEN Get(call.params, "turtleExit", 10).v
    ELSE EntryWindow

\* The call has computed its signals, for one of the strategies modelled.
SignalsComputed ==
    /\ pc \in {"signals", "sim", "done"}
    /\ call.strategy_type \in {"SMA_CROSSOVER", "BOLLINGER_BANDS", "MOMENTUM", "TURTLE"}

C15_TradeCountIsLedgerLength ==
    Returned =>
        /\ \A k \in 2..Len(result.trades) :
            result.trades[k - 1].date <= result.trades[k].date
        /\ result.metrics.tradeCount = Len(result.trades)

\* ------------------------------------------------------------------ C16

\* C16 as claimed: in every result the Sharpe ratio is finite, it is 0 when
\* the daily returns have no variance (as in a run without orders), and the
\* win rate is 0 when no round trip has closed (no SELL order).
C16_DegenerateMetricsAreZero ==
    Returned =>
        /\ result.metrics.sharpeRatio # "inf"
        /\ (\A t \in 2..Len(value) : value[t] = value[1] /\ value[1] = call.capital)
            => result.metrics.sharpeRatio = "zero"
        /\ (\A k \in 1..Len(orders) : ~IsSell(k))
            => result.metrics.winRate = RZero

\* ------------------------------------------------------------ the screener

\* ThreadPoolExecutor(max_workers=8) (main.py, line 233)
max_workers == 8

\* entries.iloc[-5:] (main.py, line 121)
RecentBars == 5

NoMatch == [symbol |-> 0, status |-> "None", yearlyReturn |-> 0]

NoSignal == <<FALSE, FALSE, FALSE, FALSE, FALSE, FALSE, FALSE>>

\* A signal series by its last seven bars, true on bar t of them only.
OnBar(t) == [k \in 1..Len(NoSignal) |-> k = t]

\* What a ticker's scan can meet: the download raises (fails), the history
\* has rows rows, run_strategy raises (raises), or it returns signals, given
\* by their last seven bars, and a total return.
Answer(fails, rows, raises, en, ex, totalReturn) ==
    [fails |-> fails, rows |-> rows, raises |-> raises, entries |-> en,
     exits |-> ex, totalReturn |-> totalReturn]

Answers ==
    <<Answer(TRUE, 0, FALSE, NoSignal, NoSignal, 0),
      Answer(FALSE, 400, FALSE, OnBar(7), NoSignal, 5),
      Answer(FALSE, 99, FALSE, OnBar(7), NoSignal, 20),
      Answer(FALSE, 400, FALSE, OnBar(1), NoSignal, 20),
      Answer(FALSE, 400, TRUE, NoSignal, NoSignal, 0),
      Answer(FALSE, 400, FALSE, OnBar(1), OnBar(2), 15),
      Answer(FALSE, 400, FALSE, NoSignal, NoSignal, 5),
      Answer(FALSE, 400, FALSE, OnBar(6), OnBar(7), 20),
      Answer(FALSE, 100, FALSE, OnBar(2), OnBar(1), -5),
      Answer(FALSE, 0, FALSE, NoSignal, NoSignal, 0),
      Answer(FALSE, 400, FALSE, OnBar(2), OnBar(4), 10)>>

\* The answer for ticker t: the answers are dealt to the tickers in turn,
\* starting with answer market + 1.
Yahoo(m, t) == Answers[((t + m - 1) % Len(Answers)) + 1]

\* s[s].last_valid_index(): the last bar on which s is true, 0 for None.
LastValidIndex(s) ==
    IF \A k \in 1..Len(s) : ~s[k] THEN 0
    ELSE CHOOSE k \in 1..Len(s) : s[k] /\ \A j \in (k + 1)..Len(s) : ~s[j]

\* scan_single_ticker (main.py, lines 106-142): None (NoMatch) when anything raises,
\* when the history has fewer than 100 rows, or when the ticker shows no
\* recent entry, no uptrend and a return of at most 10.
scan_single_ticker(ticker, df) ==
    IF df.fails \/ df.rows < 100 \/ df.raises THEN NoMatch
    ELSE LET has_new_signal ==
                 \E k \in (Len(df.entries) - RecentBars + 1)..Len(df.entries) :
                     df.entries[k]
             last_entry_idx == LastValidIndex(df.entries)
             last_exit_idx == LastValidIndex(df.exits)
             is_uptrend == /\ last_entry_idx # 0
                           /\ (last_exit_idx = 0 \/ last_entry_idx > last_exit_idx)
             yearly_return == df.totalReturn
         IN  IF ~(has_new_signal \/ is_uptrend \/ yearly_return > 10) THEN NoMatch
             ELSE [symbol |-> ticker,
                   status |-> IF has_new_signal THEN "BUY SIGNAL"
                              ELSE IF is_uptrend THEN "UPTREND" ELSE "NEUTRAL",
                   yearlyReturn |-> yearly_return]

\* list.sort(key=..., reverse=True), key[i] being the key of l[i]: by
\* descending key, entries with equal keys staying in the order they had.
SortReverse(l, key) ==
    LET pos(i) == 1 + Cardinality({j \in 1..Len(l) :
                       \/ key[j] > key[i]
                       \/ (key[j] = key[i] /\ j < i)})
    IN  [r \in 1..Len(l) |-> l[CHOOSE i \in 1..Len(l) : pos(i) = r]]

\* key=lambda x: x['yearlyReturn'] (main.py, line 238)
ByYearlyReturn(l) == SortReverse(l, [i \in 1..Len(l) |-> l[i].yearlyReturn])

\* state_rank.get(x['status'], 0) (main.py, lines 239-240)
state_rank(x) ==
    IF x.status = "BUY SIGNAL" THEN 2 ELSE IF x.status = "UPTREND" THEN 1 ELSE 0

\* key=lambda x: state_rank.get(x['status'], 0) (main.py, line 240)
ByStateRank(l) == SortReverse(l, [i \in 1..Len(l) |-> state_rank(l[i])])

\* Mutant of SortResults: the two sorts in the other order.
SortResultsRankFirst(l) == ByYearlyReturn(ByStateRank(l))

\* main.py, lines 238-240: sorted by return, then by status rank.
SortResults(l) == ByStateRank(ByYearlyReturn(l))

\* The tickers of the sector: those of a pool, or none for an unknown sector.
Pools == {0, NTickers}

\* The answers are dealt from the first, the fourth or the seventh on.
Markets == {0, 3, 6}

InitScreener == EngineNew({NoFrame}) /\ \E m \in Markets : ScreenerIdle(m)

Running == {t \in DOMAIN futures : futures[t] = "running"}

\* run_screener up to line 234: one scan is submitted per ticker.
Submit ==
    /\ screener = "idle"
    /\ \E n \in Pools : futures' = [t \in 1..n |-> "queued"]
    /\ results' = <<>>
    /\ screener' = "collecting"
    /\ UNCHANGED market
    /\ UNCHANGED engine_vars

\* A worker of the pool takes the scan submitted first among those waiting;
\* the pool has max_workers workers.
StartScan ==
    /\ screener = "collecting"
    /\ Cardinality(Running) < max_workers
    /\ \E t \in DOMAIN futures :
        /\ futures[t] = "queued"
        /\ \A u \in 1..(t - 1) : futures[u] # "queued"
        /\ futures' = [futures EXCEPT ![t] = "running"]
    /\ UNCHANGED <<market, results, screener>>
    /\ UNCHANGED engine_vars

\* A scan ends; whatever happened in it, it ends with a value.
FinishScan ==
    /\ screener = "collecting"
    /\ \E t \in Running : futures' = [futures EXCEPT ![t] = "finished"]
    /\ UNCHANGED <<market, results, screener>>
    /\ UNCHANGED engine_vars

\* Lines 235-237: as_completed hands over a scan that has ended, and its
\* result is appended unless it is None.
Collect ==
    /\ screener = "collecting"
    /\ \E t \in DOMAIN futures :
        /\ futures[t] = "finished"
        /\ futures' = [futures EXCEPT ![t] = "collected"]
        /\ LET res == scan_single_ticker(t, Yahoo(market, t))
           IN  results' = IF res # NoMatch THEN Append(results, res) ELSE results
    /\ UNCHANGED <<market, screener>>
    /\ UNCHANGED engine_vars

\* Lines 238-241: every scan has been collected; sort twice and return.
ReturnResults ==
    /\ screener = "collecting"
    /\ \A t \in DOMAIN futures : futures[t] = "collected"
    /\ results' = SortResults(results)
    /\ screener' = "returned"
    /\ UNCHANGED <<market, futures>>
    /\ UNCHANGED engine_vars

NextScreener ==
    \/ Submit
    \/ StartScan
    \/ FinishScan
    \/ Collect
    \/ ReturnResults

SpecScreener == InitScreener /\ [][NextScreener]_vars

\* ------------------------------------------------------------------ C17

\* The tickers whose scan succeeded and passed the filter.
Passed == {t \in DOMAIN futures : scan_single_ticker(t, Yahoo(market, t)) # NoMatch}

\* C17: at most max_workers scans run at a time; when run_screener returns,
\* the results are exactly one per ticker whose scan succeeded and passed
\* the filter (the tickers whose scan raised are left out and nothing else
\* is lost), ordered by status rank (BUY SIGNAL, UPTREND, NEUTRAL) and,
\* within a status, by descending yearlyReturn.
C17_ScreenerResults ==
    /\ Cardinality(Running) <= max_workers
    /\ screener = "returned" =>
        /\ {results[k].symbol : k \in 1..Len(results)} = Passed
        /\ Len(results) = Cardinality(Passed)
        /\ \A k \in 1..Len(results) :
            results[k] = scan_single_ticker(results[k].symbol,
                                            Yahoo(market, results[k].symbol))
        /\ \A k \in 2..Len(results) :
            \/ state_rank(results[k - 1]) > state_rank(results[k])
            \/ /\ state_rank(results[k - 1]) = state_rank(results[k])
               /\ results[k - 1].yearlyReturn >= results[k].yearlyReturn

\* C17 witness: a screen of more tickers than workers has returned; one
\* scan met a failing download, one a raising run_strategy, and the results
\* hold the three statuses, two of them twice.
C17_Witness ==
    /\ screener = "returned"
    /\ Len(futures) > max_workers
    /\ \E t \in DOMAIN futures : Yahoo(market, t).fails
    /\ \E t \in DOMAIN futures : Yahoo(market, t).raises
    /\ {results[k].status : k \in 1..Len(results)} = {"BUY SIGNAL", "UPTREND", "NEUTRAL"}
    /\ \E k \in 2..Len(results) :
        /\ results[k - 1].status = results[k].status
        /\ results[k - 1].yearlyReturn > results[k].yearlyReturn

====
